---- MODULE Spec2Model ----
(***************************************************************************)
(* State-machine model of the jaketodo-api record repository               *)
(* (app/services/todo_service.py), its table (app/database.py), its typed  *)
(* inputs (app/models/todo.py) and its list handler (app/routers/todos.py).*)
(*                                                                         *)
(* Every service coroutine is split at its awaits on the store: one action *)
(* per SQL statement, an UPDATE or DELETE together with its commit, the    *)
(* INSERT and its commit apart.  Every request has a connection of its own *)
(* (app/database.py get_db).  A SQL value is None (NULL) or Some(v).  Dates*)
(* are <<year, month, day>>; the text SQLite keeps for a date is a         *)
(* sequence of one-character strings.  An id in a path is a Python int:    *)
(* its sign and the bits of its magnitude.                                 *)
(***************************************************************************)
EXTENDS Integers, Sequences, FiniteSets, TLC

----------------------------------------------------------------------------
(* Bounds of the model *)

MaxTodos == 3       \* INSERTs performed in one behaviour of Spec
MaxDataTodos == 1   \* INSERTs performed in one behaviour of DataSpec
MaxConcTodos == 1   \* INSERTs performed in one behaviour of ConcSpec
MaxClock == 1       \* clock ticks in one behaviour of DataSpec or ConcSpec
NumProcs == 2       \* concurrent requests in ConcSpec
MaxRows == 2        \* rows of the stores ListSpec starts from
MaxEdgeTodos == 2   \* INSERTs performed in one behaviour of EdgeSpec
MaxAuthTodos == 1   \* INSERTs performed in one behaviour of AuthSpec
MaxBulkTodos == 3   \* INSERTs performed in one behaviour of BulkSpec
MaxBulkLen == 2     \* creation inputs in one bulk-create request of BulkSpec

----------------------------------------------------------------------------
(* SQL / Python optional values *)

None == <<>>
Some(v) == <<v>>

\* Python truthiness of an Optional[str] and of an Optional[int]
TruthyStr(o) == o # None /\ o[1] # ""
TruthyInt(o) == o # None /\ o[1] # 0

----------------------------------------------------------------------------
(* Dates and their ISO text *)

DigitChar == <<"0", "1", "2", "3", "4", "5", "6", "7", "8", "9">>

CharCode(c) ==
    CASE c = "-" -> 45
      [] c = "0" -> 48 [] c = "1" -> 49 [] c = "2" -> 50 [] c = "3" -> 51
      [] c = "4" -> 52 [] c = "5" -> 53 [] c = "6" -> 54 [] c = "7" -> 55
      [] c = "8" -> 56 [] c = "9" -> 57
      [] OTHER -> 120

Pow10(k) == CASE k = 0 -> 1 [] k = 1 -> 10 [] k = 2 -> 100 [] k = 3 -> 1000

\* "%0<w>d" % n
Pad(n, w) == [i \in 1..w |-> DigitChar[((n \div Pow10(w - i)) % 10) + 1]]

\* variant: day and month written in the other order
isoformat_dm(d) == Pad(d[1], 4) \o <<"-">> \o Pad(d[3], 2) \o <<"-">> \o Pad(d[2], 2)

\* datetime.date.isoformat(): "%04d-%02d-%02d"
isoformat(d) == Pad(d[1], 4) \o <<"-">> \o Pad(d[2], 2) \o <<"-">> \o Pad(d[3], 2)

IsDigit(c) == CharCode(c) \in 48..57

RECURSIVE Num(_)
Num(t) == IF t = <<>> THEN 0
          ELSE 10 * Num(SubSeq(t, 1, Len(t) - 1)) + (CharCode(t[Len(t)]) - 48)

IsLeap(y) == (y % 4 = 0 /\ y % 100 # 0) \/ y % 400 = 0

DaysIn(y, m) == IF m = 2 THEN (IF IsLeap(y) THEN 29 ELSE 28)
                ELSE IF m \in {4, 6, 9, 11} THEN 30 ELSE 31

\* SQLite's BINARY collation on TEXT: memcmp, the shorter text first on a tie
RECURSIVE TextCmp(_, _)
TextCmp(a, b) ==
    IF a = <<>> /\ b = <<>> THEN 0
    ELSE IF a = <<>> THEN -1
    ELSE IF b = <<>> THEN 1
    ELSE IF CharCode(Head(a)) < CharCode(Head(b)) THEN -1
    ELSE IF CharCode(Head(a)) > CharCode(Head(b)) THEN 1
    ELSE TextCmp(Tail(a), Tail(b))

\* a calendar date "YYYY-MM-DD" of the years 1 to 9999
IsPlainDate(t) ==
    /\ Len(t) = 10
    /\ t[5] = "-" /\ t[8] = "-"
    /\ \A i \in {1, 2, 3, 4, 6, 7, 9, 10} : IsDigit(t[i])
    /\ Num(SubSeq(t, 1, 4)) >= 1
    /\ Num(SubSeq(t, 6, 7)) \in 1..12
    /\ Num(SubSeq(t, 9, 10)) \in 1..DaysIn(Num(SubSeq(t, 1, 4)), Num(SubSeq(t, 6, 7)))

\* the date a "YYYY-MM-DD" text denotes
fromisoformat(t) == <<Num(SubSeq(t, 1, 4)), Num(SubSeq(t, 6, 7)), Num(SubSeq(t, 9, 10))>>

----------------------------------------------------------------------------
(* Binary numbers.  A timestamp text is read into a 64-bit integer or into a *)
(* double; a number is the sequence of its bits, the most significant first. *)

AllDigits(t) == \A i \in 1..Len(t) : IsDigit(t[i])

\* the digits of t from its first digit other than "0"
SigLen(t) ==
    LET nz == {i \in 1..Len(t) : t[i] # "0"}
    IN IF nz = {} THEN 0 ELSE Len(t) + 1 - (CHOOSE i \in nz : \A j \in nz : i <= j)

Zeros(n) == IF n <= 0 THEN <<>> ELSE [i \in 1..n |-> 0]

\* b without its leading zero bits
Trim(b) ==
    LET ones == {i \in 1..Len(b) : b[i] = 1}
    IN IF ones = {} THEN <<>>
       ELSE SubSeq(b, CHOOSE i \in ones : \A j \in ones : i <= j, Len(b))

RECURSIVE Bits(_)
Bits(n) == IF n = 0 THEN <<>> ELSE Append(Bits(n \div 2), n % 2)

RECURSIVE ToInt(_)
ToInt(b) == IF b = <<>> THEN 0 ELSE 2 * ToInt(SubSeq(b, 1, Len(b) - 1)) + b[Len(b)]

\* <<the low Len(b) bits, the bits above them>> of b * m + a: the low half
\* of b first, its carry into the high half
RECURSIVE MulCarry(_, _, _)
MulCarry(b, m, a) ==
    IF b = <<>> THEN <<<<>>, a>>
    ELSE IF Len(b) = 1 THEN <<<<(b[1] * m + a) % 2>>, (b[1] * m + a) \div 2>>
    ELSE LET half == Len(b) \div 2
             l == MulCarry(SubSeq(b, half + 1, Len(b)), m, a)
             h == MulCarry(SubSeq(b, 1, half), m, l[2])
         IN IF l[2] >= 0 THEN <<h[1] \o l[1], h[2]>> ELSE <<>>

\* b * m + a
MulAdd(b, m, a) ==
    LET Join(p) == Bits(p[2]) \o p[1]
    IN Join(MulCarry(b, m, a))

\* <<quotient, remainder>> of r * 2^Len(b) + b by n, r < n: the high half of
\* b first, its remainder into the low half
RECURSIVE DivFrom(_, _, _)
DivFrom(r, b, n) ==
    IF b = <<>> THEN <<<<>>, r>>
    ELSE IF Len(b) = 1 THEN <<<<(2 * r + b[1]) \div n>>, (2 * r + b[1]) % n>>
    ELSE LET half == Len(b) \div 2
             h == DivFrom(r, SubSeq(b, 1, half), n)
             l == DivFrom(h[2], SubSeq(b, half + 1, Len(b)), n)
         IN IF h[2] >= 0 THEN <<h[1] \o l[1], l[2]>> ELSE <<>>

\* <<quotient, remainder>> of b by n
DivMod(b, n) == DivFrom(0, b, n)

\* a < b
Less(a, b) ==
    LET Below(x, y) ==
            \/ Len(x) < Len(y)
            \/ /\ Len(x) = Len(y)
               /\ \E i \in 1..Len(x) : x[i] < y[i] /\ \A j \in 1..(i - 1) : x[j] = y[j]
    IN Below(Trim(a), Trim(b))

\* the number acc followed by the decimal digits s
RECURSIVE ReadDigits(_, _)
ReadDigits(acc, s) ==
    IF s = <<>> THEN acc
    ELSE IF Len(s) = 1 THEN MulAdd(acc, 10, CharCode(s[1]) - 48)
    ELSE LET half == Len(s) \div 2
             a == ReadDigits(acc, SubSeq(s, 1, half))
         IN IF Len(a) >= 0 THEN ReadDigits(a, SubSeq(s, half + 1, Len(s))) ELSE <<>>

\* the number of the decimal digits s
FromDigits(s) == ReadDigits(<<>>, s)

\* b * 10^k
RECURSIVE MulPow10(_, _)
MulPow10(b, k) ==
    IF k = 0 THEN b
    ELSE IF k = 1 THEN MulAdd(b, 10, 0)
    ELSE LET a == MulPow10(b, k \div 2)
         IN IF Len(a) >= 0 THEN MulPow10(a, k - (k \div 2)) ELSE <<>>

\* <<b \div 10^k, whether the division left a remainder>>
RECURSIVE DivPow10(_, _)
DivPow10(b, k) ==
    IF k = 0 THEN <<b, FALSE>>
    ELSE IF k = 1 THEN LET Inexact(qr) == <<qr[1], qr[2] # 0>> IN Inexact(DivMod(b, 10))
    ELSE LET h == DivPow10(b, k \div 2)
             l == DivPow10(h[1], k - (k \div 2))
         IN IF Len(h[1]) >= 0 THEN <<l[1], h[2] \/ l[2]>> ELSE <<>>

\* b, with sticky set when digits below it were dropped, rounded to the 53
\* significant bits of a double: to the nearest, to the even one on a tie
Round53(b, sticky) ==
    LET Nearest(t) ==
            IF Len(t) <= 53 THEN t
            ELSE (IF /\ t[54] = 1
                     /\ sticky \/ t[53] = 1 \/ \E i \in 55..Len(t) : t[i] = 1
                  THEN MulAdd(SubSeq(t, 1, 53), 1, 1)
                  ELSE SubSeq(t, 1, 53)) \o Zeros(Len(t) - 53)
    IN Nearest(Trim(b))

\* the decimal digits s read into a signed 64-bit accumulator that wraps
\* around: None once the accumulator is negative
RECURSIVE WrapFrom(_, _)
WrapFrom(acc, s) ==
    IF s = <<>> \/ acc = None THEN acc
    ELSE IF Len(s) = 1
    THEN LET Low64(n) == Trim(IF Len(n) > 64 THEN SubSeq(n, Len(n) - 63, Len(n)) ELSE n)
             NonNegative(w) == IF Len(w) = 64 THEN None ELSE Some(w)
         IN NonNegative(Low64(MulAdd(acc[1], 10, CharCode(s[1]) - 48)))
    ELSE LET half == Len(s) \div 2
             a == WrapFrom(acc, SubSeq(s, 1, half))
         IN IF a = None THEN None ELSE WrapFrom(a, SubSeq(s, half + 1, Len(s)))

WrapInt64(s) == WrapFrom(Some(<<>>), s)

----------------------------------------------------------------------------
(* pydantic's date parser (app/models/todo.py, due_date: Optional[date]) *)

\* a unix timestamp above 20,000,000,000 in magnitude counts milliseconds,
\* any other counts seconds
MS_WATERSHED == MulPow10(Bits(2), 10)

SecondsPerDay == 86400
MinDay == -719162   \* 0001-01-01, in days since 1970-01-01
MaxDay == 2932896   \* 9999-12-31

\* the date of a day number (days since 1970-01-01), MinDay..MaxDay
CivilFromDays(z) ==
    LET n == z + 719468
        era == n \div 146097
        doe == n % 146097
        yoe == (doe - (doe \div 1460) + (doe \div 36524) - (doe \div 146096)) \div 365
        doy == doe - (365 * yoe + (yoe \div 4) - (yoe \div 100))
        mp == (5 * doy + 2) \div 153
        d == doy - ((153 * mp + 2) \div 5) + 1
        m == IF mp < 10 THEN mp + 3 ELSE mp - 9
        y == yoe + 400 * era
    IN <<IF m <= 2 THEN y + 1 ELSE y, m, d>>

\* the day number of the timestamp of magnitude b and sign neg: None unless
\* it falls on a midnight UTC of the years 1 to 9999
from_timestamp(neg, b) ==
    LET InRange(z) == IF z < MinDay \/ z > MaxDay THEN None ELSE Some(z)
        Midnight(qr) ==
            IF qr[2] # 0 THEN None
            ELSE InRange(IF neg THEN 0 - ToInt(Trim(qr[1])) ELSE ToInt(Trim(qr[1])))
        Millis(k) == IF k[2] # 0 THEN None ELSE Midnight(DivMod(k[1], SecondsPerDay))
    IN IF Len(Trim(b)) > 48 THEN None
       ELSE IF Less(MS_WATERSHED, b) THEN Millis(DivMod(b, 1000))
       ELSE Midnight(DivMod(b, SecondsPerDay))

IsNegative(t) == t # <<>> /\ Head(t) = "-"

Unsigned(t) == IF t # <<>> /\ Head(t) \in {"+", "-"} THEN Tail(t) ELSE t

\* the text of an integer: a sign or none, then digits
IntDays(t) ==
    LET Stamp(w) == IF w = None THEN None ELSE from_timestamp(IsNegative(t), w[1])
    IN IF Unsigned(t) = <<>> \/ ~AllDigits(Unsigned(t)) THEN None
       ELSE Stamp(WrapInt64(Unsigned(t)))

\* a number of more than 18 digits before the point is beyond every
\* timestamp, one below 10^-8 is below a microsecond
ExpMargin == 19

\* the digits of an exponent are read while the exponent is below 2^28
ExpCap == 268435456

\* the exponent acc followed by the decimal digits s: a digit is taken in
\* while the exponent is below ExpCap, and passed over from there on
RECURSIVE ReadExponent(_, _)
ReadExponent(acc, s) ==
    IF s = <<>> THEN acc
    ELSE IF Len(s) = 1
    THEN IF Less(acc, Bits(ExpCap)) THEN MulAdd(acc, 10, CharCode(s[1]) - 48) ELSE acc
    ELSE LET half == Len(s) \div 2
             a == ReadExponent(acc, SubSeq(s, 1, half))
         IN IF Len(a) >= 0 THEN ReadExponent(a, SubSeq(s, half + 1, Len(s))) ELSE <<>>

\* the text of a decimal number, its sign set aside: digits around one ".",
\* then an exponent or none.  The exponent read is kept up to
\* Len(t) + ExpMargin: past the length of the text it decides alone, the
\* number being zero, below a microsecond or beyond every timestamp.
FloatParts(t) ==
    LET UpTo(n, limit) == IF Less(Bits(limit), n) THEN limit ELSE ToInt(Trim(n))
        Magnitude(u) == UpTo(ReadExponent(<<>>, u), Len(t) + ExpMargin)
        Signed(minus, n) == IF minus THEN 0 - n ELSE n
        Exponent(ex) == Signed(IsNegative(ex), Magnitude(Unsigned(ex)))
        AroundDot(man, ex, hasExp, dot) ==
            IF \/ ~AllDigits(SubSeq(man, 1, dot - 1))
               \/ ~AllDigits(SubSeq(man, dot + 1, Len(man)))
            THEN None
            ELSE IF hasExp /\ (Unsigned(ex) = <<>> \/ ~AllDigits(Unsigned(ex))) THEN None
            ELSE Some([whole |-> SubSeq(man, 1, dot - 1),
                       frac  |-> SubSeq(man, dot + 1, Len(man)),
                       exp   |-> Exponent(ex)])
        Mantissa(man, ex, hasExp, dots) ==
            IF Cardinality(dots) # 1 \/ Len(man) = 1 THEN None
            ELSE AroundDot(man, ex, hasExp, CHOOSE i \in dots : TRUE)
        Halves(man, ex, hasExp) ==
            Mantissa(man, ex, hasExp, {i \in 1..Len(man) : man[i] = "."})
        CutAt(s, hasExp, cut) ==
            Halves(SubSeq(s, 1, cut - 1), SubSeq(s, cut + 1, Len(s)), hasExp)
        Marks(s, es) ==
            IF Cardinality(es) > 1 THEN None
            ELSE CutAt(s, es # {}, IF es = {} THEN Len(s) + 1 ELSE CHOOSE i \in es : TRUE)
        Body(s) == Marks(s, {i \in 1..Len(s) : s[i] \in {"e", "E"}})
    IN Body(Unsigned(t))

\* fractions of a second are kept in units of 2^-FracBits
FracBits == 82

\* the microseconds of the fraction fr, a double product rounded half away
\* from zero: Some(0) for none, Some(1) for a whole second, None for any other
Microseconds(fr) ==
    LET Micro(p) ==
            IF Len(Trim(p)) < FracBits THEN Some(0)
            ELSE IF ~Less(p, Bits(1999999) \o Zeros(FracBits - 1)) THEN Some(1)
            ELSE None
    IN Micro(Round53(MulAdd(fr, 1000000, 0), FALSE))

\* the double nearest to the decimal digits D times 10^E, in units of
\* 2^-FracBits
ToDouble(D, E) ==
    LET Rounded(scaled) == Round53(scaled[1], scaled[2])
        Scale(n) == IF E >= 0 THEN <<MulPow10(n, E) \o Zeros(FracBits), FALSE>>
                    ELSE DivPow10(n \o Zeros(FracBits), 0 - E)
    IN Rounded(Scale(FromDigits(D)))

\* a double past the watershed counts milliseconds: it is divided by 1000
ToSeconds(x) ==
    LET Thousandth(d) == Round53(d[1], d[2] # 0)
    IN IF Less(MS_WATERSHED \o Zeros(FracBits), x) THEN Thousandth(DivMod(x, 1000)) ELSE x

\* the magnitude y of a double, of sign neg, is split into its floor and a
\* fraction; the fraction must round to no microsecond or to a whole second,
\* and the seconds are a timestamp
SplitSeconds(neg, y) ==
    LET Carry(whole, carry) ==
            IF carry = None THEN None
            ELSE from_timestamp(neg, IF (carry[1] = 1) # neg THEN MulAdd(whole, 1, 1)
                                     ELSE whole)
        Floor(whole, fr) ==
            IF Trim(fr) = <<>> THEN from_timestamp(neg, whole)
            ELSE Carry(whole,
                       Microseconds(IF neg
                                    THEN Round53(MulAdd([i \in 1..FracBits |-> 1 - fr[i]], 1, 1),
                                                 FALSE)
                                    ELSE fr))
        Padded(pad) == Floor(SubSeq(pad, 1, Len(pad) - FracBits),
                             SubSeq(pad, Len(pad) - FracBits + 1, Len(pad)))
    IN Padded(Zeros(FracBits - Len(y)) \o y)

\* the day number of the decimal digits D times 10^E, of sign neg
FloatSeconds(neg, D, E) ==
    IF SigLen(D) = 0 \/ SigLen(D) + E <= -8 THEN Some(0)
    ELSE IF SigLen(D) + E > 18 THEN None
    ELSE SplitSeconds(neg, ToSeconds(ToDouble(D, E)))

\* the text of a decimal number: the double nearest to it, divided by 1000
\* past the watershed, is split into seconds and microseconds
FloatDays(t) ==
    LET Number(parts) ==
            IF parts = None THEN None
            ELSE IF WrapInt64(parts[1].whole) = None THEN None
            ELSE FloatSeconds(IsNegative(t), parts[1].whole \o parts[1].frac,
                              parts[1].exp - Len(parts[1].frac))
    IN Number(FloatParts(t))

TimestampDays(t) ==
    LET OrFloat(days) == IF days # None THEN days ELSE FloatDays(t)
    IN OrFloat(IntDays(t))

\* the end of a datetime text: nothing, "Z", or an offset below 24 hours
IsZone(r) ==
    \/ r = <<>>
    \/ r = <<"Z">>
    \/ r = <<"z">>
    \/ /\ Len(r) \in {5, 6}
       /\ r[1] \in {"+", "-"}
       /\ Len(r) = 6 => r[4] = ":"
       /\ LET hh == SubSeq(r, 2, 3)
              mm == SubSeq(r, Len(r) - 1, Len(r))
          IN AllDigits(hh) /\ AllDigits(mm) /\ Num(hh) <= 23 /\ Num(mm) <= 59

\* a fraction of a second, or none, then the zone: the fraction is cut to the
\* microsecond
ZeroFraction(r) ==
    IF r # <<>> /\ Head(r) \in {".", ","}
    THEN LET n == CHOOSE k \in 0..(Len(r) - 1) :
                      /\ \A j \in 1..k : IsDigit(r[j + 1])
                      /\ k < Len(r) - 1 => ~IsDigit(r[k + 2])
         IN /\ n >= 1
            /\ \A j \in 1..n : j <= 6 => r[j + 1] = "0"
            /\ IsZone(SubSeq(r, n + 2, Len(r)))
    ELSE IsZone(r)

\* the seconds, or none, then the fraction and the zone
ZeroSeconds(r) ==
    IF r # <<>> /\ Head(r) = ":"
    THEN Len(r) >= 3 /\ r[2] = "0" /\ r[3] = "0" /\ ZeroFraction(SubSeq(r, 4, Len(r)))
    ELSE IsZone(r)

\* a datetime text at midnight: a calendar date, a separator, "00:00", then
\* the seconds, the fraction and the zone
IsMidnightDatetime(t) ==
    /\ Len(t) >= 16
    /\ IsPlainDate(SubSeq(t, 1, 10))
    /\ t[11] \in {"T", "t", " ", "_"}
    /\ SubSeq(t, 12, 16) = <<"0", "0", ":", "0", "0">>
    /\ ZeroSeconds(SubSeq(t, 17, Len(t)))

\* pydantic's date parser accepts the text: a calendar date, a unix timestamp
\* that falls on a midnight UTC, or a datetime text whose time is zero
IsIsoDate(t) == IsPlainDate(t) \/ TimestampDays(t) # None \/ IsMidnightDatetime(t)

\* the date pydantic's date parser makes of a text it accepts
parse_date(t) ==
    LET DateOf(days) ==
            IF ~IsPlainDate(t) /\ days # None THEN CivilFromDays(days[1])
            ELSE fromisoformat(SubSeq(t, 1, 10))
    IN DateOf(TimestampDays(t))

----------------------------------------------------------------------------
(* Order of dates *)

\* calendar order of two dates
DateLess(a, b) ==
    \/ a[1] < b[1]
    \/ a[1] = b[1] /\ a[2] < b[2]
    \/ a[1] = b[1] /\ a[2] = b[2] /\ a[3] < b[3]

----------------------------------------------------------------------------
(* Typed inputs: app/models/todo.py.  A payload is a JSON object: a function *)
(* from the field names it carries to None (JSON null) or Some(value).  The  *)
(* value of description, due_date_text, notes and gcal_event_id is a JSON    *)
(* string, the value of priority a JSON integer, and the value of due_date a *)
(* JSON string given as the sequence of its characters, all of them ASCII.   *)

Fields == {"description", "due_date_text", "due_date", "notes", "priority", "gcal_event_id"}

Has(p, f) == f \in DOMAIN p

\* a str field holds a string
TextOk(p) ==
    \A f \in {"description", "due_date_text", "notes", "gcal_event_id"} \cap DOMAIN p :
        p[f] # None => p[f][1] \in STRING

DateOk(p) == (Has(p, "due_date") /\ p["due_date"] # None) => IsIsoDate(p["due_date"][1])

\* TodoCreate(**payload) raises no ValidationError
ValidCreate(p) ==
    /\ Has(p, "description") /\ p["description"] # None /\ Len(p["description"][1]) >= 1
    /\ Has(p, "priority") => (p["priority"] # None /\ p["priority"][1] \in 1..4)
    /\ TextOk(p)
    /\ DateOk(p)

OptField(p, f) == IF Has(p, f) THEN p[f] ELSE None

DateField(p) == IF Has(p, "due_date") /\ p["due_date"] # None
                THEN Some(parse_date(p["due_date"][1])) ELSE None

MinPriority == 1
MaxPriority == 4
DefaultPriority == 3

\* variant: the priority default of another level
TodoCreateDefault4(p) ==
    [description   |-> p["description"][1],
     due_date_text |-> OptField(p, "due_date_text"),
     due_date      |-> DateField(p),
     notes         |-> OptField(p, "notes"),
     priority      |-> IF Has(p, "priority") THEN p["priority"][1] ELSE MaxPriority,
     gcal_event_id |-> OptField(p, "gcal_event_id")]

TodoCreate(p) ==
    [description   |-> p["description"][1],
     due_date_text |-> OptField(p, "due_date_text"),
     due_date      |-> DateField(p),
     notes         |-> OptField(p, "notes"),
     priority      |-> IF Has(p, "priority") THEN p["priority"][1] ELSE DefaultPriority,
     gcal_event_id |-> OptField(p, "gcal_event_id")]

\* variant: no bounds on the priority of an update
ValidUpdateAnyPriority(p) ==
    /\ (Has(p, "description") /\ p["description"] # None) => Len(p["description"][1]) >= 1
    /\ TextOk(p)
    /\ DateOk(p)

\* TodoUpdate(**payload) raises no ValidationError
ValidUpdate(p) ==
    /\ (Has(p, "description") /\ p["description"] # None) => Len(p["description"][1]) >= 1
    /\ (Has(p, "priority") /\ p["priority"] # None) => p["priority"][1] \in 1..4
    /\ TextOk(p)
    /\ DateOk(p)

\* TodoUpdate(**payload).model_dump(exclude_unset=True): the fields that were
\* set, extra keys ignored
TodoUpdate(p) ==
    [f \in DOMAIN p \cap Fields |-> IF f = "due_date" THEN DateField(p) ELSE p[f]]

----------------------------------------------------------------------------
(* The table: app/database.py *)

\* variant: priority INTEGER DEFAULT 3 CHECK (priority BETWEEN 1 AND 4), which
\* a NULL passes
RowOkNullPriority(r) ==
    /\ r.description # None
    /\ r.priority # None => (r.priority[1] >= MinPriority /\ r.priority[1] <= MaxPriority)
    /\ r.status # None /\ r.status[1] \in {"pending", "completed"}

\* NOT NULL and CHECK constraints of CREATE TABLE todos
RowOk(r) ==
    /\ r.description # None
    /\ r.priority # None /\ r.priority[1] >= MinPriority /\ r.priority[1] <= MaxPriority
    /\ r.status # None /\ r.status[1] \in {"pending", "completed"}

SetMax(S) == CHOOSE x \in S : \A y \in S : y <= x

\* variant: a plain INTEGER PRIMARY KEY, one more than the largest rowid present
NextRowidMax(t, s) == SetMax({0} \cup DOMAIN t) + 1

\* INTEGER PRIMARY KEY AUTOINCREMENT: one more than the largest rowid ever used
NextRowid(t, s) == SetMax({s} \cup DOMAIN t) + 1

\* TodoResponse built from a row; pydantic parses the DATE text back to a date
row_to_todo(row) ==
    [id            |-> row.id,
     description   |-> row.description[1],
     due_date_text |-> row.due_date_text,
     due_date      |-> IF row.due_date = None THEN None
                       ELSE Some(parse_date(row.due_date[1])),
     notes         |-> row.notes,
     priority      |-> row.priority[1],
     status        |-> row.status[1],
     gcal_event_id |-> row.gcal_event_id,
     created_at    |-> row.created_at[1],
     updated_at    |-> row.updated_at[1],
     completed_at  |-> row.completed_at]

----------------------------------------------------------------------------
(* The SQL statements of app/services/todo_service.py, on a table t: a     *)
(* function from the rowids present to their rows.                         *)

\* the row INSERTed by create_todo at time now
InsertRow(id, data, now) ==
    [id            |-> id,
     description   |-> Some(data.description),
     due_date_text |-> data.due_date_text,
     due_date      |-> IF data.due_date # None THEN Some(isoformat(data.due_date[1]))
                       ELSE None,
     notes         |-> data.notes,
     priority      |-> Some(data.priority),
     status        |-> Some("pending"),
     gcal_event_id |-> data.gcal_event_id,
     created_at    |-> Some(now),
     updated_at    |-> Some(now),
     completed_at  |-> None,
     deleted_at    |-> None]

\* the path parameter todo_id: int is a Python int, of any size: its sign and
\* the bits of its magnitude
PyInt(n) == [neg |-> n < 0, bits |-> Bits(IF n < 0 THEN 0 - n ELSE n)]

\* 2^63, the least int past SQLite's INTEGER
Int64Overflow == [neg |-> FALSE, bits |-> <<1>> \o Zeros(63)]

\* the parameter binds to "?": it is an INTEGER, -2^63 .. 2^63 - 1
Binds(todo_id) ==
    Len(todo_id.bits) <= 63 \/ (todo_id.neg /\ todo_id.bits = Int64Overflow.bits)

\* what a statement raises for a parameter that does not bind
OverflowError == <<"OverflowError", "Python int too large to convert to SQLite INTEGER">>

\* the rows of WHERE id = ?
Selected(t, todo_id) == {i \in DOMAIN t : PyInt(i) = todo_id}

\* variant: SELECT * FROM todos WHERE id = ?
get_todo_any(t, todo_id) ==
    LET FetchAny(rows) ==
            IF rows = {} THEN None ELSE Some(row_to_todo(t[CHOOSE i \in rows : TRUE]))
    IN  IF ~Binds(todo_id) THEN OverflowError ELSE FetchAny(Selected(t, todo_id))

\* SELECT * FROM todos WHERE id = ? AND deleted_at IS NULL, and fetchone():
\* the statement raises for a parameter that does not bind
get_todo(t, todo_id) ==
    LET FetchOne(rows) ==
            IF rows = {} THEN None ELSE Some(row_to_todo(t[CHOOSE i \in rows : TRUE]))
    IN  IF ~Binds(todo_id) THEN OverflowError
        ELSE FetchOne({i \in Selected(t, todo_id) : t[i].deleted_at = None})

\* the WHERE clause list_todos builds: a falsy filter adds no condition
ListWhere(row, status, priority) ==
    /\ row.deleted_at = None
    /\ TruthyStr(status) => row.status = status
    /\ TruthyInt(priority) => row.priority = priority

\* SQLite's comparison of two column values: NULL first, then integers by
\* value and texts by memcmp
SqlCmp(a, b) ==
    IF a = None /\ b = None THEN 0
    ELSE IF a = None THEN -1
    ELSE IF b = None THEN 1
    ELSE TextCmp(a[1], b[1])

IntCmp(a, b) == IF a < b THEN -1 ELSE IF a > b THEN 1 ELSE 0

\* variant: ORDER BY due_date ASC, priority ASC (SQLite puts NULL first)
OrderCmpNullsFirst(a, b) ==
    IF SqlCmp(a.due_date, b.due_date) # 0 THEN SqlCmp(a.due_date, b.due_date)
    ELSE IntCmp(a.priority[1], b.priority[1])

\* ORDER BY CASE WHEN due_date IS NULL THEN 1 ELSE 0 END, due_date ASC, priority ASC
OrderCmp(a, b) ==
    LET na == IF a.due_date = None THEN 1 ELSE 0
        nb == IF b.due_date = None THEN 1 ELSE 0
    IN  IF na # nb THEN IntCmp(na, nb)
        ELSE IF SqlCmp(a.due_date, b.due_date) # 0 THEN SqlCmp(a.due_date, b.due_date)
        ELSE IntCmp(a.priority[1], b.priority[1])

\* the sorter: rows arrive in rowid order and equal keys keep that order
RECURSIVE SortInsert(_, _)
SortInsert(s, row) ==
    IF s = <<>> THEN <<row>>
    ELSE IF OrderCmp(row, Head(s)) < 0 THEN <<row>> \o s
    ELSE <<Head(s)>> \o SortInsert(Tail(s), row)

RECURSIVE SortRows(_, _)
SortRows(t, ids) ==
    IF ids = {} THEN <<>>
    ELSE LET m == SetMax(ids)
         IN  SortInsert(SortRows(t, ids \ {m}), t[m])

\* list_todos: the query, then a TodoResponse per row
list_todos(t, status, priority) ==
    LET rows == SortRows(t, {i \in DOMAIN t : ListWhere(t[i], status, priority)})
    IN  [k \in 1..Len(rows) |-> row_to_todo(rows[k])]

\* variant: a None value taken for an omitted field
UpdateRowSkipNull(row, update_data, now) ==
    [c \in DOMAIN row |->
        IF c \in DOMAIN update_data /\ update_data[c] # None
        THEN (IF c = "due_date" THEN Some(isoformat(update_data[c][1])) ELSE update_data[c])
        ELSE IF c = "updated_at" THEN Some(now)
        ELSE row[c]]

\* variant: an update that also takes the record back to pending
UpdateRowResetsStatus(row, update_data, now) ==
    [c \in DOMAIN row |->
        IF c \in DOMAIN update_data
        THEN (IF c = "due_date" /\ update_data[c] # None
              THEN Some(isoformat(update_data[c][1])) ELSE update_data[c])
        ELSE IF c = "updated_at" THEN Some(now)
        ELSE IF c = "status" THEN Some("pending")
        ELSE IF c = "completed_at" THEN None
        ELSE row[c]]

\* update_todo's SET list applied to a row: the fields of update_data, a
\* date as its ISO text, then updated_at
UpdateRow(row, update_data, now) ==
    [c \in DOMAIN row |->
        IF c \in DOMAIN update_data
        THEN (IF c = "due_date" /\ update_data[c] # None
              THEN Some(isoformat(update_data[c][1])) ELSE update_data[c])
        ELSE IF c = "updated_at" THEN Some(now)
        ELSE row[c]]

\* variant: the UPDATE executed whatever the SET list
HasUpdatesAlways(update_data) == TRUE

\* "if updates:": update_todo executes its UPDATE only for a non-empty SET list
HasUpdates(update_data) == DOMAIN update_data # {}

\* UPDATE todos SET deleted_at = ?, updated_at = ? WHERE id = ?
DeleteRow(row, now1, now2) ==
    [row EXCEPT !.deleted_at = Some(now1), !.updated_at = Some(now2)]

\* variant: a completed record taken back to pending
CompleteRowToggle(row, now) ==
    IF row.status = Some("completed")
    THEN [row EXCEPT !.status = Some("pending"), !.completed_at = None,
                     !.updated_at = Some(now)]
    ELSE [row EXCEPT !.status = Some("completed"), !.completed_at = Some(now),
                     !.updated_at = Some(now)]

\* UPDATE todos SET status = 'completed', completed_at = ?, updated_at = ? WHERE id = ?
CompleteRow(row, now) ==
    [row EXCEPT !.status = Some("completed"), !.completed_at = Some(now),
                !.updated_at = Some(now)]

\* variant: completed_at left as it was
ReopenRowKeepsStamp(row, now) ==
    [row EXCEPT !.status = Some("pending"), !.updated_at = Some(now)]

\* UPDATE todos SET status = 'pending', completed_at = NULL, updated_at = ? WHERE id = ?
ReopenRow(row, now) ==
    [row EXCEPT !.status = Some("pending"), !.completed_at = None,
                !.updated_at = Some(now)]

\* SELECT COUNT(*) FROM todos WHERE deleted_at IS NOT NULL
PurgeCount(t) == Cardinality({i \in DOMAIN t : t[i].deleted_at # None})

\* variant: DELETE FROM todos
PurgeRowsAll(t) == [i \in {} |-> t[i]]

\* variant: DELETE FROM todos WHERE deleted_at IS NOT NULL OR status = 'completed'
PurgeRowsCompleted(t) ==
    [i \in {j \in DOMAIN t : t[j].deleted_at = None /\ t[j].status # Some("completed")} |-> t[i]]

\* DELETE FROM todos WHERE deleted_at IS NOT NULL
PurgeRows(t) == [i \in {j \in DOMAIN t : t[j].deleted_at = None} |-> t[i]]

----------------------------------------------------------------------------
(* The requests.  Each request runs the service coroutine of its handler   *)
(* on a connection of its own, one action per statement it awaits; pc[p]   *)
(* is where request p stands.                                              *)

VARIABLES
    todos,    \* the table as committed: rowid -> row
    seq,      \* sqlite_sequence: the largest rowid ever used
    clock,    \* the UTC clock
    pc,       \* pc[p]: the statement request p runs next
    req,      \* req[p]: the operation and arguments of request p
    loc,      \* loc[p]: the locals of the coroutine and its connection: n, its
              \* lastrowid or count; t0, the time its read-check returned (of
              \* create_todo: its INSERT ran); existing, what its read-check
              \* returned; rowcount, the rows its UPDATE changed; rows, the result
              \* of a SELECT executed and not fetched yet; tx, the table its open
              \* transaction has written and not committed
    ret,      \* ret[p]: the response of request p
    issued    \* history: the ids of the records create_todo has committed so far

vars == <<todos, seq, clock, pc, req, loc, ret, issued>>

Procs == 1..NumProcs

\* settings.jaketodo_api_token
ApiToken == "secret"

\* variant: one signal for an absent and for a mismatched credential
verify_token_one_signal(credentials) ==
    IF credentials = None \/ credentials[1] # ApiToken THEN "unauthorized" ELSE "ok"

\* Depends(verify_token), over Depends(HTTPBearer()): no Authorization header
\* is 403, a token that is not the configured one is 401
verify_token(credentials) ==
    IF credentials = None THEN "forbidden"
    ELSE IF credentials[1] # ApiToken THEN "unauthorized"
    ELSE "ok"

\* the handlers run behind Depends(verify_token): a request they serve
\* carries the configured token
NoReq == [op |-> "none", id |-> PyInt(0), data |-> <<>>, status |-> None, priority |-> None,
          cred |-> Some(ApiToken)]
NoRet == [code |-> "none", todos |-> <<>>, count |-> 0]
\* the locals of a coroutine, on a connection with no statement or
\* transaction open
Locals(n, t0, existing) ==
    [n |-> n, t0 |-> t0, existing |-> existing, rowcount |-> 0, rows |-> <<>>, tx |-> None]

Ok(ts) == [code |-> "ok", todos |-> ts, count |-> Len(ts)]
Fail(c) == [code |-> c, todos |-> <<>>, count |-> 0]

Idle(p) == pc[p] \in {"idle", "done"}

Answer(p, r, response) ==
    /\ req' = [req EXCEPT ![p] = r]
    /\ pc' = [pc EXCEPT ![p] = "done"]
    /\ loc' = [loc EXCEPT ![p] = Locals(0, clock, None)]
    /\ ret' = [ret EXCEPT ![p] = response]

\* the handler returns, or an exception nothing catches makes the server
\* answer 500: async with get_db() closes the connection, which ends its
\* statement and rolls back its transaction
Return(p, response) ==
    /\ pc' = [pc EXCEPT ![p] = "done"]
    /\ ret' = [ret EXCEPT ![p] = response]
    /\ loc' = [loc EXCEPT ![p].rows = <<>>, ![p].tx = None]
    /\ UNCHANGED req

Init ==
    /\ todos = <<>>
    /\ seq = 0
    /\ clock = 0
    /\ pc = [p \in Procs |-> "idle"]
    /\ req = [p \in Procs |-> NoReq]
    /\ loc = [p \in Procs |-> Locals(0, 0, None)]
    /\ ret = [p \in Procs |-> NoRet]
    /\ issued = {}

Tick ==
    /\ clock < MaxClock
    /\ clock' = clock + 1
    /\ UNCHANGED <<todos, seq, pc, req, loc, ret, issued>>

\* SQLite's locks on the database file (the rollback journal, aiosqlite's
\* default).  A connection holds a SHARED lock while its SELECT has rows not
\* fetched yet (a SELECT of no row holds none), a RESERVED lock from the
\* statement that writes to its commit or its close, and a PENDING lock
\* once its commit has begun: it keeps that one when the commit fails.  A
\* SELECT waits while another connection holds PENDING, a statement that
\* writes while another holds RESERVED, a commit while another holds SHARED.
\* The outcomes of a statement of request p that takes `lock`: FALSE, it
\* runs; TRUE, it has waited the busy timeout (5 s) and raises
\* OperationalError (database is locked).  A statement with neither
\* outcome waits.
Timeouts(p, lock) ==
    LET others == Procs \ {p}
        Shared(q) == loc[q].rows # <<>>
        Reserved(q) == loc[q].tx # None
        Pending(q) == pc[q] = "close_pending"
        \* q may stand inside its commit, behind the SHARED lock of a third
        Committing(q) == /\ Reserved(q)
                         /\ pc[q] \notin {"close", "close_pending"}
                         /\ \E r \in others \ {q} : Shared(r)
        Held(q) == CASE lock = "SHARED" -> Pending(q)
                     [] lock = "RESERVED" -> Reserved(q)
                     [] lock = "EXCLUSIVE" -> Shared(q)
        MayBeHeld(q) == Held(q) \/ (lock = "SHARED" /\ Committing(q))
    IN  {timeout \in BOOLEAN : IF timeout THEN \E q \in others : MayBeHeld(q)
                                           ELSE \A q \in others : ~Held(q)}

\* cursor = await db.execute(SELECT ...), where result is what the statement
\* does on the table as committed: it raises (OverflowError for a parameter
\* that does not bind, OperationalError for the lock), or it runs and its
\* rows wait for the fetch
Select(p, r, l, binds, result, next) ==
    /\ req' = [req EXCEPT ![p] = r]
    /\ \E timeout \in Timeouts(p, "SHARED") :
         IF timeout \/ ~binds
         THEN /\ pc' = [pc EXCEPT ![p] = "done"]
              /\ loc' = [loc EXCEPT ![p] = l]
              /\ ret' = [ret EXCEPT ![p] = Fail("server_error")]
         ELSE /\ pc' = [pc EXCEPT ![p] = next]
              /\ loc' = [loc EXCEPT ![p] = [l EXCEPT !.rows = result]]
              /\ ret' = [ret EXCEPT ![p] = NoRet]
    /\ UNCHANGED <<todos, seq, clock, issued>>

\* await db.execute(UPDATE or DELETE ...): the statement has changed k rows
\* and left the table tx in the transaction it opened; a constraint the
\* new rows violate raises IntegrityError and leaves the transaction open
Executed(p, next, tx, k) ==
    /\ IF \A i \in DOMAIN tx : RowOk(tx[i])
       THEN /\ pc' = [pc EXCEPT ![p] = next]
            /\ loc' = [loc EXCEPT ![p].rowcount = k, ![p].tx = Some(tx)]
            /\ UNCHANGED ret
       ELSE /\ pc' = [pc EXCEPT ![p] = "close"]
            /\ loc' = [loc EXCEPT ![p].tx = Some(todos)]
            /\ ret' = [ret EXCEPT ![p] = Fail("server_error")]
    /\ UNCHANGED req

\* await db.commit(): the table the transaction wrote becomes the table the
\* other connections read, or the commit raises and the transaction stays
\* open, holding off every other statement, until the connection closes
Commit(p, next, response) ==
    /\ \E timeout \in Timeouts(p, "EXCLUSIVE") :
         IF timeout
         THEN /\ pc' = [pc EXCEPT ![p] = "close_pending"]
              /\ ret' = [ret EXCEPT ![p] = Fail("server_error")]
              /\ UNCHANGED <<todos, loc>>
         ELSE /\ todos' = loc[p].tx[1]
              /\ pc' = [pc EXCEPT ![p] = next]
              /\ ret' = [ret EXCEPT ![p] = response]
              /\ loc' = [loc EXCEPT ![p].tx = None]
    /\ UNCHANGED <<clock, req>>

\* async with get_db(), left by an exception with the transaction open:
\* await db.close() rolls the transaction back, and the server answers 500
close(p) ==
    /\ pc[p] \in {"close", "close_pending"}
    /\ Return(p, ret[p])
    /\ UNCHANGED <<todos, seq, clock, issued>>

\* POST /todos: the body parsed into a TodoCreate, 422 on a ValidationError;
\* then create_todo: the INSERT, on the request's own connection; created_at
\* and updated_at default to CURRENT_TIMESTAMP, read as the INSERT executes,
\* and cursor.lastrowid is known
create_todo_insert(p, payload, max) ==
    /\ Idle(p)
    /\ LET r == [NoReq EXCEPT !.op = "create", !.data = payload]
           n == NextRowid(todos, seq)
           row == InsertRow(n, TodoCreate(payload), clock)
       IN  IF ~ValidCreate(payload)
           THEN Answer(p, r, Fail("invalid"))
           ELSE /\ seq < max
                /\ RowOk(row)
                /\ \E timeout \in Timeouts(p, "RESERVED") :
                     IF timeout
                     THEN Answer(p, r, Fail("server_error"))
                     ELSE /\ req' = [req EXCEPT ![p] = r]
                          /\ pc' = [pc EXCEPT ![p] = "create_commit"]
                          /\ loc' = [loc EXCEPT ![p] =
                                       [Locals(n, clock, None) EXCEPT
                                          !.tx = Some([i \in DOMAIN todos \cup {n} |->
                                                         IF i = n THEN row ELSE todos[i]])]]
                          /\ ret' = [ret EXCEPT ![p] = NoRet]
    /\ UNCHANGED <<todos, seq, clock, issued>>

\* create_todo: await db.commit(): the row inserted, as it was stamped, and
\* sqlite_sequence reach the table the other connections read
create_todo_commit(p) ==
    /\ pc[p] = "create_commit"
    /\ Commit(p, "create_get", ret[p])
    /\ seq' = IF pc'[p] = "create_get" THEN loc[p].n ELSE seq
    /\ issued' = IF pc'[p] = "create_get" THEN issued \cup {loc[p].n} ELSE issued

\* create_todo: return await get_todo(db, cursor.lastrowid): its SELECT
create_todo_return(p) ==
    /\ pc[p] = "create_get"
    /\ Select(p, req[p], loc[p], TRUE, get_todo(todos, PyInt(loc[p].n)), "create_fetch")

\* GET /todos/{id}: get_todo, its SELECT
get_todo_request(p, id) ==
    /\ Idle(p)
    /\ Select(p, [NoReq EXCEPT !.op = "get", !.id = id], Locals(0, clock, None), Binds(id),
              get_todo(todos, id), "get_fetch")

\* the time a coroutine reads with datetime.utcnow() between its read-check
\* (returned at loc[p].t0) and the statement it then executes
Nows(p) == loc[p].t0 .. clock

\* get_todo: row = await cursor.fetchone(), which ends the SELECT; then the
\* caller goes on.  A read-check that found no record ends the request with
\* the handler's 404, and one that found a record takes the coroutine to
\* its next statement; the handlers map a None returned to 404, but for
\* create_todo's, whose response model it fails
get_todo_fetchone(p) ==
    /\ pc[p] \in {"create_fetch", "get_fetch", "update_existing", "update_fetch",
                  "delete_existing", "complete_existing", "complete_fetch",
                  "reopen_existing", "reopen_fetch"}
    /\ LET row == loc[p].rows
           Continue(next) ==
               IF row = None THEN Return(p, Fail("not_found"))
               ELSE /\ pc' = [pc EXCEPT ![p] = next]
                    /\ loc' = [loc EXCEPT ![p] = Locals(0, clock, row)]
                    /\ UNCHANGED <<req, ret>>
       IN  CASE pc[p] = "create_fetch" ->
                  Return(p, IF row = None THEN Fail("server_error") ELSE Ok(<<row[1]>>))
             [] pc[p] \in {"get_fetch", "update_fetch", "complete_fetch", "reopen_fetch"} ->
                  Return(p, IF row = None THEN Fail("not_found") ELSE Ok(<<row[1]>>))
             [] pc[p] = "update_existing" ->
                  Continue(IF HasUpdates(TodoUpdate(req[p].data)) THEN "update_write"
                           ELSE "update_get")
             [] pc[p] = "delete_existing" -> Continue("delete_write")
             [] pc[p] = "complete_existing" -> Continue("complete_write")
             [] pc[p] = "reopen_existing" -> Continue("reopen_write")
    /\ UNCHANGED <<todos, seq, clock, issued>>

\* GET /todos: Query(None, ge=1, le=4) rejects a priority outside 1..4; then
\* list_todos, its SELECT
list_todos_request(p, status, priority) ==
    /\ Idle(p)
    /\ LET r == [NoReq EXCEPT !.op = "list", !.status = status, !.priority = priority]
       IN  IF priority # None /\ (priority[1] < MinPriority \/ priority[1] > MaxPriority)
           THEN Answer(p, r, Fail("invalid")) /\ UNCHANGED <<todos, seq, clock, issued>>
           ELSE Select(p, r, Locals(0, clock, None), TRUE,
                       list_todos(todos, status, priority), "list_fetch")

\* list_todos: rows = await cursor.fetchall()
list_todos_fetchall(p) ==
    /\ pc[p] = "list_fetch"
    /\ Return(p, Ok(loc[p].rows))
    /\ UNCHANGED <<todos, seq, clock, issued>>

\* PUT /todos/{id}: the body parsed into a TodoUpdate, 422 on a
\* ValidationError; then update_todo: existing = await get_todo(db, todo_id),
\* its SELECT
update_todo_check(p, id, payload) ==
    /\ Idle(p)
    /\ LET r == [NoReq EXCEPT !.op = "update", !.id = id, !.data = payload]
       IN  IF ~ValidUpdate(payload)
           THEN Answer(p, r, Fail("invalid")) /\ UNCHANGED <<todos, seq, clock, issued>>
           ELSE Select(p, r, Locals(0, clock, None), Binds(id), get_todo(todos, id),
                       "update_existing")

\* update_todo: UPDATE todos SET ... WHERE id = ? AND deleted_at IS NULL
update_todo_execute(p) ==
    /\ pc[p] = "update_write"
    /\ LET hits == {i \in Selected(todos, req[p].id) : todos[i].deleted_at = None}
       IN  \E timeout \in Timeouts(p, "RESERVED") :
             IF timeout THEN Return(p, Fail("server_error"))
             ELSE \E now \in Nows(p) :
                    Executed(p, "update_commit",
                             [i \in DOMAIN todos |->
                                IF i \in hits
                                THEN UpdateRow(todos[i], TodoUpdate(req[p].data), now)
                                ELSE todos[i]],
                             Cardinality(hits))
    /\ UNCHANGED <<todos, seq, clock, issued>>

\* update_todo: await db.commit()
update_todo_commit(p) ==
    /\ pc[p] = "update_commit"
    /\ Commit(p, "update_get", ret[p])
    /\ UNCHANGED <<seq, issued>>

\* update_todo: return await get_todo(db, todo_id): its SELECT
update_todo_return(p) ==
    /\ pc[p] = "update_get"
    /\ Select(p, req[p], loc[p], Binds(req[p].id), get_todo(todos, req[p].id), "update_fetch")

\* delete_todo: existing = await get_todo(db, todo_id): its SELECT
delete_todo_check(p, id) ==
    /\ Idle(p)
    /\ Select(p, [NoReq EXCEPT !.op = "delete", !.id = id], Locals(0, clock, None), Binds(id),
              get_todo(todos, id), "delete_existing")

\* delete_todo: the UPDATE (two readings of the clock)
delete_todo_execute(p) ==
    /\ pc[p] = "delete_write"
    /\ \E timeout \in Timeouts(p, "RESERVED") :
         IF timeout THEN Return(p, Fail("server_error"))
         ELSE \E now1 \in Nows(p) : \E now2 \in now1 .. clock :
                Executed(p, "delete_commit",
                         [i \in DOMAIN todos |->
                            IF i \in Selected(todos, req[p].id)
                            THEN DeleteRow(todos[i], now1, now2) ELSE todos[i]],
                         Cardinality(Selected(todos, req[p].id)))
    /\ UNCHANGED <<todos, seq, clock, issued>>

\* delete_todo: await db.commit(), return True
delete_todo_commit(p) ==
    /\ pc[p] = "delete_commit"
    /\ Commit(p, "done", Ok(<<>>))
    /\ UNCHANGED <<seq, issued>>

\* complete_todo: existing = await get_todo(db, todo_id): its SELECT
complete_todo_check(p, id) ==
    /\ Idle(p)
    /\ Select(p, [NoReq EXCEPT !.op = "complete", !.id = id], Locals(0, clock, None), Binds(id),
              get_todo(todos, id), "complete_existing")

\* complete_todo: the UPDATE
complete_todo_execute(p) ==
    /\ pc[p] = "complete_write"
    /\ \E timeout \in Timeouts(p, "RESERVED") :
         IF timeout THEN Return(p, Fail("server_error"))
         ELSE \E now \in Nows(p) :
                Executed(p, "complete_commit",
                         [i \in DOMAIN todos |->
                            IF i \in Selected(todos, req[p].id)
                            THEN CompleteRow(todos[i], now) ELSE todos[i]],
                         Cardinality(Selected(todos, req[p].id)))
    /\ UNCHANGED <<todos, seq, clock, issued>>

\* complete_todo: await db.commit()
complete_todo_commit(p) ==
    /\ pc[p] = "complete_commit"
    /\ Commit(p, "complete_get", ret[p])
    /\ UNCHANGED <<seq, issued>>

\* complete_todo: return await get_todo(db, todo_id): its SELECT
complete_todo_return(p) ==
    /\ pc[p] = "complete_get"
    /\ Select(p, req[p], loc[p], Binds(req[p].id), get_todo(todos, req[p].id), "complete_fetch")

\* reopen_todo: existing = await get_todo(db, todo_id): its SELECT
reopen_todo_check(p, id) ==
    /\ Idle(p)
    /\ Select(p, [NoReq EXCEPT !.op = "reopen", !.id = id], Locals(0, clock, None), Binds(id),
              get_todo(todos, id), "reopen_existing")

\* reopen_todo: the UPDATE
reopen_todo_execute(p) ==
    /\ pc[p] = "reopen_write"
    /\ \E timeout \in Timeouts(p, "RESERVED") :
         IF timeout THEN Return(p, Fail("server_error"))
         ELSE \E now \in Nows(p) :
                Executed(p, "reopen_commit",
                         [i \in DOMAIN todos |->
                            IF i \in Selected(todos, req[p].id)
                            THEN ReopenRow(todos[i], now) ELSE todos[i]],
                         Cardinality(Selected(todos, req[p].id)))
    /\ UNCHANGED <<todos, seq, clock, issued>>

\* reopen_todo: await db.commit()
reopen_todo_commit(p) ==
    /\ pc[p] = "reopen_commit"
    /\ Commit(p, "reopen_get", ret[p])
    /\ UNCHANGED <<seq, issued>>

\* reopen_todo: return await get_todo(db, todo_id): its SELECT
reopen_todo_return(p) ==
    /\ pc[p] = "reopen_get"
    /\ Select(p, req[p], loc[p], Binds(req[p].id), get_todo(todos, req[p].id), "reopen_fetch")

\* purge_deleted: the SELECT COUNT(*), which returns one row
purge_deleted_count(p) ==
    /\ Idle(p)
    /\ Select(p, [NoReq EXCEPT !.op = "purge"], Locals(0, 0, None), TRUE,
              <<PurgeCount(todos)>>, "purge_fetch")

\* purge_deleted: row = await cursor.fetchone(); count = row[0]
purge_deleted_fetchone(p) ==
    /\ pc[p] = "purge_fetch"
    /\ pc' = [pc EXCEPT ![p] = "purge_write"]
    /\ loc' = [loc EXCEPT ![p] = Locals(loc[p].rows[1], 0, None)]
    /\ UNCHANGED <<todos, seq, clock, issued, req, ret>>

\* purge_deleted: the DELETE
purge_deleted_execute(p) ==
    /\ pc[p] = "purge_write"
    /\ \E timeout \in Timeouts(p, "RESERVED") :
         IF timeout THEN Return(p, Fail("server_error"))
         ELSE Executed(p, "purge_commit", PurgeRows(todos),
                       Cardinality(DOMAIN todos \ DOMAIN PurgeRows(todos)))
    /\ UNCHANGED <<todos, seq, clock, issued>>

\* purge_deleted: await db.commit(), return count
purge_deleted_commit(p) ==
    /\ pc[p] = "purge_commit"
    /\ Commit(p, "done", [code |-> "ok", todos |-> <<>>, count |-> loc[p].n])
    /\ UNCHANGED <<seq, issued>>

\* POST /todos/bulk: the router has no route for it; the path matches
\* "/{todo_id}", which is routed for GET, PUT and DELETE, and the server
\* answers 405 Method Not Allowed before any dependency or handler runs
bulk_create_request(p, payloads) ==
    /\ Idle(p)
    /\ Answer(p, [NoReq EXCEPT !.op = "bulk", !.data = payloads], Fail("method_not_allowed"))
    /\ UNCHANGED <<todos, seq, clock, issued>>

\* a request the dependency rejects: the handler does not run
rejected_request(p, op, credentials) ==
    /\ Idle(p)
    /\ verify_token(credentials) # "ok"
    /\ Answer(p, [NoReq EXCEPT !.op = op, !.cred = credentials],
              Fail(verify_token(credentials)))
    /\ UNCHANGED <<todos, seq, clock, issued>>

\* GET /health, which has no dependency
health_check(p, credentials) ==
    /\ Idle(p)
    /\ Answer(p, [NoReq EXCEPT !.op = "health", !.cred = credentials], Ok(<<>>))
    /\ UNCHANGED <<todos, seq, clock, issued>>

----------------------------------------------------------------------------
(* Inputs *)

D0110 == <<"2", "0", "2", "5", "-", "0", "1", "-", "1", "0">>
D0120 == <<"2", "0", "2", "5", "-", "0", "1", "-", "2", "0">>
D1202 == <<"2", "0", "2", "4", "-", "1", "2", "-", "0", "2">>
D0230 == <<"2", "0", "2", "5", "-", "0", "2", "-", "3", "0">>

\* texts of the other forms the date parser reads: the timestamp of
\* 2025-01-20 in seconds, the one of 2025-01-10 as a decimal number, the
\* midnight of 2024-12-02 as a datetime, and a timestamp one second off a
\* midnight
TS0120 == <<"1", "7", "3", "7", "3", "3", "1", "2", "0", "0">>
FL0110 == <<"1", "7", "3", "6", "4", "6", "7", "2", "0", "0", ".", "0">>
DT1202 == <<"2", "0", "2", "4", "-", "1", "2", "-", "0", "2", "T",
            "0", "0", ":", "0", "0", ":", "0", "0", "Z">>
TS0120Off == <<"1", "7", "3", "7", "3", "3", "1", "2", "0", "1">>

OnlyDescription == [description |-> Some("a")]

AllFields ==
    [description |-> Some("b"), due_date_text |-> Some("soon"), due_date |-> Some(D0110),
     notes |-> Some("n"), priority |-> Some(1), gcal_event_id |-> Some("g")]

NoFields == [f \in {} |-> None]

\* what a specification draws its requests from
Inputs(creates, updates, ids, statuses, priorities) ==
    [creates |-> creates, updates |-> updates, ids |-> ids,
     statuses |-> statuses, priorities |-> priorities,
     \* the path ids of the requests: the ids of the records there can be, and
     \* the least int past SQLite's INTEGER
     paths |-> {PyInt(i) : i \in ids} \cup {Int64Overflow}]

\* POST /todos
CreateRequest(p, in) ==
    \/ \E payload \in in.creates : create_todo_insert(p, payload, Cardinality(in.ids))
    \/ create_todo_commit(p)
    \/ create_todo_return(p)

\* GET /todos/{id} and GET /todos; get_todo's fetchone() is a step of every
\* request that calls get_todo
ReadRequest(p, in) ==
    \/ \E id \in in.paths : get_todo_request(p, id)
    \/ \E s \in in.statuses : \E n \in in.priorities : list_todos_request(p, s, n)
    \/ list_todos_fetchall(p)

\* PUT /todos/{id}
UpdateRequest(p, in) ==
    \/ \E id \in in.paths : \E payload \in in.updates : update_todo_check(p, id, payload)
    \/ update_todo_execute(p)
    \/ update_todo_commit(p)
    \/ update_todo_return(p)

\* DELETE /todos/{id}, POST /todos/{id}/complete, POST /todos/{id}/reopen,
\* DELETE /admin/purge
LifecycleRequest(p, in) ==
    \/ \E id \in in.paths : delete_todo_check(p, id)
    \/ delete_todo_execute(p)
    \/ delete_todo_commit(p)
    \/ \E id \in in.paths : complete_todo_check(p, id)
    \/ complete_todo_execute(p)
    \/ complete_todo_commit(p)
    \/ complete_todo_return(p)
    \/ \E id \in in.paths : reopen_todo_check(p, id)
    \/ reopen_todo_execute(p)
    \/ reopen_todo_commit(p)
    \/ reopen_todo_return(p)
    \/ purge_deleted_count(p)
    \/ purge_deleted_fetchone(p)
    \/ purge_deleted_execute(p)
    \/ purge_deleted_commit(p)

Request(p, in) ==
    \/ CreateRequest(p, in)
    \/ ReadRequest(p, in)
    \/ UpdateRequest(p, in)
    \/ LifecycleRequest(p, in)
    \/ get_todo_fetchone(p)

----------------------------------------------------------------------------
(* Spec: one client, every call run to completion before the next starts,  *)
(* over the whole lifecycle, all within one reading of the clock (DataSpec *)
(* and ConcSpec let it advance).                                           *)

SpecInputs ==
    Inputs({OnlyDescription}, {NoFields, [priority |-> Some(4)]}, 1..MaxTodos,
           {None, Some("completed")}, {None, Some(4)})

Next == Request(1, SpecInputs)

Spec == Init /\ [][Next]_vars

----------------------------------------------------------------------------
(* DataSpec: one client creating, updating and reading records, over the   *)
(* shapes a payload can take.                                              *)

DataInputs ==
    Inputs({OnlyDescription, AllFields,
            [description |-> Some("d"), due_date |-> Some(TS0120)]},
           {NoFields,
            [priority |-> Some(4), due_date |-> Some(D1202)],
            [due_date |-> Some(DT1202)],
            [description |-> Some("c"), notes |-> None, due_date |-> None],
            [priority |-> None]},
           1..MaxDataTodos, {None}, {None})

DataNext ==
    \/ Tick
    \/ CreateRequest(1, DataInputs)
    \/ ReadRequest(1, DataInputs)
    \/ UpdateRequest(1, DataInputs)
    \/ get_todo_fetchone(1)
    \/ close(1)

DataSpec == Init /\ [][DataNext]_vars

----------------------------------------------------------------------------
(* ConcSpec: NumProcs requests in flight, their statements interleaved.    *)

ConcInputs ==
    Inputs({OnlyDescription}, {[priority |-> Some(4)]}, 1..MaxConcTodos, {None}, {None})

ConcNext ==
    \/ Tick
    \/ \E p \in Procs :
         \/ CreateRequest(p, ConcInputs)
         \/ UpdateRequest(p, ConcInputs)
         \/ LifecycleRequest(p, ConcInputs)
         \/ get_todo_fetchone(p)
         \/ close(p)

ConcSpec == Init /\ [][ConcNext]_vars

----------------------------------------------------------------------------
(* ListSpec: the read paths applied to every table of at most MaxRows rows *)
(* built by create_todo, complete_todo and delete_todo.                    *)

\* the row with rowid i that create_todo, then complete_todo or delete_todo, leave
BuildRow(i, due, priority, state) ==
    LET created == InsertRow(i, TodoCreate([description |-> Some("a"), due_date |-> due,
                                             priority |-> Some(priority)]), 0)
    IN  CASE state = "pending" -> created
          [] state = "completed" -> CompleteRow(created, 0)
          [] state = "deleted" -> DeleteRow(created, 0, 0)

ListInit ==
    /\ \E n \in 0..MaxRows :
         \E due \in [1..n -> {None, Some(D0110), Some(D0120), Some(D1202)}] :
           \E priority \in [1..n -> {1, 3, 4}] :
             \E state \in [1..n -> {"pending", "completed", "deleted"}] :
               /\ todos = [i \in 1..n |-> BuildRow(i, due[i], priority[i], state[i])]
               /\ seq = n
               /\ issued = 1..n
    /\ clock = 0
    /\ pc = [p \in Procs |-> "idle"]
    /\ req = [p \in Procs |-> NoReq]
    /\ loc = [p \in Procs |-> Locals(0, 0, None)]
    /\ ret = [p \in Procs |-> NoRet]

ListInputs ==
    Inputs({}, {}, 1..MaxRows,
           {None, Some(""), Some("pending"), Some("completed"), Some("bogus")},
           {None, Some(0), Some(1), Some(4)})

\* one read of the table drawn
ListNext == pc[1] # "done" /\ (ReadRequest(1, ListInputs) \/ get_todo_fetchone(1))

ListSpec == ListInit /\ [][ListNext]_vars

----------------------------------------------------------------------------
(* EdgeSpec: one client sending create and update payloads, valid ones and *)
(* ones that are malformed, out of range or explicitly null.               *)

EdgeInputs ==
    Inputs({OnlyDescription,
            [description |-> Some("")],
            [priority |-> Some(1)],
            [description |-> Some("a"), priority |-> Some(5)],
            [description |-> Some("a"), priority |-> None],
            [description |-> Some("a"), due_date |-> Some(D0230)],
            [description |-> Some("a"), due_date |-> Some(TS0120Off)],
            [description |-> Some("e"), due_date |-> Some(FL0110)]},
           {[priority |-> Some(4)],
            [priority |-> Some(0)],
            [priority |-> None],
            [description |-> Some("")],
            [description |-> None],
            [due_date |-> Some(D0230)],
            [due_date |-> Some(TS0120Off)],
            [due_date |-> Some(TS0120)]},
           1..MaxEdgeTodos, {None}, {None})

EdgeNext ==
    \/ CreateRequest(1, EdgeInputs)
    \/ UpdateRequest(1, EdgeInputs)
    \/ get_todo_fetchone(1)
    \/ close(1)

EdgeSpec == Init /\ [][EdgeNext]_vars

----------------------------------------------------------------------------
(* AuthSpec: one client sending requests with no credential, with a token  *)
(* that is not the configured one, and with the configured one.            *)

AuthCredentials == {None, Some("wrong"), Some(ApiToken)}

AuthInputs ==
    Inputs({OnlyDescription}, {[priority |-> Some(4)]}, 1..MaxAuthTodos, {None}, {None})

AuthNext ==
    \/ \E op \in {"create", "get", "list", "update", "delete", "complete", "reopen", "purge"} :
         \E c \in AuthCredentials : rejected_request(1, op, c)
    \/ \E c \in AuthCredentials : health_check(1, c)
    \* the credentials the dependency lets through to the handlers
    \/ \E c \in {a \in AuthCredentials : verify_token(a) = "ok"} : Request(1, AuthInputs)

AuthSpec == Init /\ [][AuthNext]_vars

----------------------------------------------------------------------------
(* BulkSpec: one client sending POST /todos/bulk requests of at most      *)
(* MaxBulkLen creation inputs, valid and invalid ones, creating records    *)
(* one by one and reading the store.                                       *)

BulkElements ==
    {OnlyDescription,
     [description |-> Some("b"), priority |-> Some(1)],
     [description |-> Some("")],
     [description |-> Some("a"), priority |-> Some(5)]}

BulkNext ==
    \/ \E n \in 0..MaxBulkLen : \E payloads \in [1..n -> BulkElements] :
         bulk_create_request(1, payloads)
    \/ list_todos_request(1, None, None)
    \/ list_todos_fetchall(1)
    \/ \E payload \in BulkElements : create_todo_insert(1, payload, MaxBulkTodos)
    \/ create_todo_commit(1)
    \/ create_todo_return(1)
    \/ get_todo_fetchone(1)

BulkSpec == Init /\ [][BulkNext]_vars

----------------------------------------------------------------------------
(* Properties *)

\* request p has been answered, and was a call of op
Done(p, op) == pc[p] = "done" /\ req[p].op = op

\* the record is physically present and soft-deleted
SoftDeleted(id) == id \in DOMAIN todos /\ todos[id].deleted_at # None

Live(id) == id \in DOMAIN todos /\ todos[id].deleted_at = None

ReturnedIds(p) == {ret[p].todos[k].id : k \in 1..Len(ret[p].todos)}

\* the id of the record the path id of request p names: 0, the id of no
\* record, when it names none that was ever created
Target(p) ==
    IF \E i \in issued : PyInt(i) = req[p].id
    THEN CHOOSE i \in issued : PyInt(i) = req[p].id
    ELSE 0

\* C1: with every call run to completion before the next starts, a record
\* whose deleted_at is non-null is absent for every caller: get, update,
\* complete and reopen of its id answer not found, and no list contains it,
\* whatever the filters.
SoftDeletedIsAbsent ==
    \A p \in Procs :
        /\ (/\ pc[p] = "done"
            /\ req[p].op \in {"get", "update", "complete", "reopen"}
            /\ SoftDeleted(Target(p))) => ret[p].code = "not_found"
        /\ Done(p, "list") => \A id \in ReturnedIds(p) : ~SoftDeleted(id)

\* a complete of a soft-deleted, still present record was answered not found
CompleteOfSoftDeleted ==
    Done(1, "complete") /\ SoftDeleted(Target(1)) /\ ret[1].code = "not_found"

\* C2: in every reachable state, under any interleaving of the requests'
\* statements, every physically present record has status = completed
\* exactly when its completed_at is non-null.
StatusIffCompletedAt ==
    \A id \in DOMAIN todos :
        (todos[id].status = Some("completed")) <=> (todos[id].completed_at # None)

\* a complete has written while a reopen of the same record stands between
\* its read-check and its write
CompleteRacesReopen ==
    \E p, q \in Procs :
        /\ pc[p] = "complete_get" /\ pc[q] = "reopen_write"
        /\ req[p].id = req[q].id
        /\ Target(p) \in DOMAIN todos
        /\ todos[Target(p)].completed_at # None

\* C3: list returns the non-deleted records with every non-null due date
\* before every null one, non-null due dates ascending, and equal due dates
\* (null ones among themselves too) in ascending priority.
ListOrder ==
    \A p \in Procs :
        (Done(p, "list") /\ ret[p].code = "ok") =>
            LET ts == ret[p].todos
            IN  /\ \A k, l \in 1..Len(ts) :
                     k < l =>
                       /\ ts[k].due_date = None => ts[l].due_date = None
                       /\ (ts[k].due_date # None /\ ts[l].due_date # None) =>
                              ~DateLess(ts[l].due_date[1], ts[k].due_date[1])
                       /\ ts[k].due_date = ts[l].due_date => ts[k].priority <= ts[l].priority
                /\ (req[p].status = None /\ req[p].priority = None) =>
                       /\ ReturnedIds(p) = {id \in DOMAIN todos : Live(id)}
                       /\ Len(ts) = Cardinality(ReturnedIds(p))

\* a list answered a dated record of priority 4 before an undated one of priority 1
DatedLowBeforeUndatedHigh ==
    /\ Done(1, "list") /\ Len(ret[1].todos) = 2
    /\ ret[1].todos[1].due_date # None /\ ret[1].todos[1].priority = 4
    /\ ret[1].todos[2].due_date = None /\ ret[1].todos[2].priority = 1

\* C4: list returns exactly the non-deleted records that match every filter
\* supplied: a supplied status (any string, the empty one too) is the status
\* of every record returned, a supplied priority is their priority, and only
\* a filter not supplied is a no-op.
ListAppliesSuppliedFilters ==
    \A p \in Procs :
        (Done(p, "list") /\ ret[p].code = "ok") =>
            /\ ReturnedIds(p) =
                   {id \in DOMAIN todos :
                       /\ Live(id)
                       /\ req[p].status # None => todos[id].status = req[p].status
                       /\ req[p].priority # None => todos[id].priority = req[p].priority}
            /\ Len(ret[p].todos) = Cardinality(ReturnedIds(p))

\* the value a payload supplies for field f, a date text as the date it names
Supplied(data, f) ==
    IF f = "due_date" /\ data[f] # None THEN Some(parse_date(data[f][1])) ELSE data[f]

\* field f of a response, as None or Some(value)
Returned(todo, f) == IF f \in {"description", "priority"} THEN Some(todo[f]) ELSE todo[f]

ZeroFields(data) == DOMAIN data \cap Fields = {}

\* C5: a successful update sets every field present in the partial input to
\* the value supplied, an explicit null clearing an optional field, and
\* leaves every data field omitted from the input as it was.
PartialUpdateFrame ==
    /\ [][\A p \in Procs :
            (pc[p] = "update_commit" /\ pc'[p] = "update_get") =>
                LET id == Target(p)
                    data == req[p].data
                IN  /\ id \in DOMAIN todos'
                    /\ \A f \in Fields :
                         IF f \in DOMAIN data
                         THEN Returned(row_to_todo(todos'[id]), f) = Supplied(data, f)
                         ELSE todos'[id][f] = todos[id][f]]_vars
    /\ [](\A p \in Procs :
            (Done(p, "update") /\ ret[p].code = "ok") =>
                \A f \in DOMAIN req[p].data \cap Fields :
                    Returned(ret[p].todos[1], f) = Supplied(req[p].data, f))

\* an update cleared notes and due_date of a record created with every
\* field, and its due_date_text, priority and gcal_event_id are as created
NullClearsOmittedStays ==
    /\ Done(1, "update") /\ ret[1].code = "ok"
    /\ "notes" \in DOMAIN req[1].data /\ req[1].data["notes"] = None
    /\ ret[1].todos[1].notes = None /\ ret[1].todos[1].due_date = None
    /\ ret[1].todos[1].due_date_text = Some("soon")
    /\ ret[1].todos[1].priority = 1
    /\ ret[1].todos[1].gcal_event_id = Some("g")

\* C6, as claimed: an update with zero fields supplied succeeds, leaves the
\* data fields unchanged and advances updated_at to the time of the call.
ZeroFieldUpdateAdvancesUpdatedAt ==
    \A p \in Procs :
        (Done(p, "update") /\ ret[p].code = "ok" /\ ZeroFields(req[p].data)) =>
            ret[p].todos[1].updated_at >= loc[p].t0

\* C6, amended: an update with zero fields supplied on an existing
\* non-deleted record writes nothing: every field of every record,
\* updated_at included, is as before, and the record is returned as it is.
ZeroFieldUpdateWritesNothing ==
    /\ [][\A p \in Procs :
            (req'[p].op = "update" /\ ZeroFields(req'[p].data) /\ pc'[p] # pc[p]) =>
                todos' = todos]_vars
    /\ [](\A p \in Procs :
            (Done(p, "update") /\ ZeroFields(req[p].data) /\ Live(Target(p))) =>
                ret[p] = Ok(<<row_to_todo(todos[Target(p)])>>))

\* a zero-field update returned a record whose updated_at is older than the call
ZeroFieldUpdateKeptUpdatedAt ==
    /\ Done(1, "update") /\ ret[1].code = "ok" /\ ZeroFields(req[1].data)
    /\ ret[1].todos[1].updated_at < loc[1].t0

\* C7: a purge with no other call interleaved removes exactly the records
\* whose deleted_at is non-null, returns the number it removed, and leaves
\* every other record present and unchanged.
PurgeRemovesExactlyDeleted ==
    [][\A p \in Procs :
        /\ (pc'[p] # pc[p] /\ pc'[p] \in {"purge_fetch", "purge_write", "purge_commit"}) =>
              todos' = todos
        /\ (pc[p] = "purge_commit" /\ pc'[p] = "done") =>
              /\ DOMAIN todos' = {id \in DOMAIN todos : todos[id].deleted_at = None}
              /\ \A id \in DOMAIN todos' : todos'[id] = todos[id]
              /\ ret'[p].count = Cardinality(DOMAIN todos \ DOMAIN todos')]_vars

\* a purge removed one record and kept another
PurgedOneKeptOne ==
    /\ Done(1, "purge") /\ ret[1].count = 1
    /\ Cardinality(DOMAIN todos) = 1 /\ seq = 2

\* C8: the id each create assigns and returns differs from the id of every
\* record created before, soft-deleted and purged ones included.
IdsNeverReused ==
    /\ [][\A p \in Procs :
            (pc[p] # "create_get" /\ pc'[p] = "create_get") =>
                (loc'[p].n \notin issued /\ loc'[p].n \in DOMAIN todos')]_vars
    /\ [](\A p \in Procs :
            (Done(p, "create") /\ ret[p].code = "ok") => ret[p].todos[1].id = loc[p].n)

\* a create returned id 2 after the record of id 1 was purged
CreatedAfterPurge ==
    /\ Done(1, "create") /\ ret[1].code = "ok"
    /\ ret[1].todos[1].id = 2 /\ DOMAIN todos = {2}

\* C9: for every valid creation input, the record create returns has
\* status pending, completed_at null, created_at = updated_at, and the
\* priority supplied, or 3 when none was.
CreateDefaults ==
    \A p \in Procs :
        Done(p, "create") =>
            /\ ret[p].code = "ok"
            /\ ret[p].todos[1].status = "pending"
            /\ ret[p].todos[1].completed_at = None
            /\ ret[p].todos[1].created_at = ret[p].todos[1].updated_at
            /\ ret[p].todos[1].priority =
                   IF "priority" \in DOMAIN req[p].data THEN req[p].data["priority"][1] ELSE 3

\* a create without a priority returned priority 3, after the clock advanced
CreatedWithDefaultPriority ==
    /\ Done(1, "create") /\ "priority" \notin DOMAIN req[1].data
    /\ ret[1].todos[1].priority = 3 /\ ret[1].todos[1].created_at > 0

\* C10: a get of the id a create returned, before any other call, returns
\* description, due_date_text, due_date, notes, priority and gcal_event_id
\* as supplied at creation, and null for an optional field not supplied.
CreateGetRoundTrip ==
    \* the SELECT of such a get finds one record, with the fields as supplied
    /\ [][\A p \in Procs :
            (/\ Done(p, "create") /\ ret[p].code = "ok"
             /\ req'[p].op = "get"
             /\ req'[p].id = PyInt(ret[p].todos[1].id)) =>
                /\ pc'[p] = "get_fetch"
                /\ Len(loc'[p].rows) = 1
                /\ \A f \in Fields :
                     IF f \in DOMAIN req[p].data
                     THEN Returned(loc'[p].rows[1], f) = Supplied(req[p].data, f)
                     ELSE f # "priority" => loc'[p].rows[1][f] = None]_vars
    \* and a get answers the record its SELECT found
    /\ [][\A p \in Procs :
            (pc[p] = "get_fetch" /\ Len(loc[p].rows) = 1 /\ pc'[p] # pc[p]) =>
                (pc'[p] = "done" /\ ret'[p] = Ok(loc[p].rows))]_vars

\* a get returned the record created with every field, never updated
GotAllFieldsBack ==
    /\ Done(1, "get") /\ ret[1].code = "ok"
    /\ ret[1].todos[1].description = "b"
    /\ ret[1].todos[1].due_date = Some(<<2025, 1, 10>>)
    /\ ret[1].todos[1].due_date_text = Some("soon")
    /\ ret[1].todos[1].notes = Some("n")
    /\ ret[1].todos[1].priority = 1
    /\ ret[1].todos[1].gcal_event_id = Some("g")

\* C11: with every call run to completion before the next starts, complete
\* and reopen are never rejected on a non-deleted record and are idempotent:
\* complete succeeds on a pending and on a completed record and leaves it
\* completed; reopen succeeds on a completed and on a pending record and
\* leaves it pending with completed_at null; so a second call in succession
\* leaves the status of the first.
CompleteReopenIdempotent ==
    \A p \in Procs :
        /\ (Done(p, "complete") /\ Live(Target(p))) =>
              /\ ret[p].code = "ok"
              /\ ret[p].todos[1].status = "completed"
              /\ ret[p].todos[1].completed_at # None
              /\ todos[Target(p)].status = Some("completed")
        /\ (Done(p, "reopen") /\ Live(Target(p))) =>
              /\ ret[p].code = "ok"
              /\ ret[p].todos[1].status = "pending"
              /\ ret[p].todos[1].completed_at = None
              /\ todos[Target(p)].status = Some("pending")
              /\ todos[Target(p)].completed_at = None

\* a complete succeeded on a record its read-check found completed already
CompletedTwice ==
    /\ Done(1, "complete") /\ ret[1].code = "ok"
    /\ loc[1].existing # None /\ loc[1].existing[1].status = "completed"
    /\ ret[1].todos[1].status = "completed"

\* C12: with every call run to completion before the next starts,
\* soft_delete of an existing non-deleted record succeeds and sets its
\* deleted_at; soft_delete of a record already soft-deleted, of an id never
\* created and of a purged id answers not found; and a record once
\* soft-deleted or purged never becomes non-deleted again, so every later
\* soft_delete of its id answers not found too.
SoftDeleteOnce ==
    /\ [](\A p \in Procs :
            Done(p, "delete") =>
                /\ ret[p].code \in {"ok", "not_found"}
                /\ ret[p].code = "ok" => SoftDeleted(Target(p))
                /\ ret[p].code = "not_found" => ~Live(Target(p)))
    /\ [][/\ \A p \in Procs :
               (pc[p] = "delete_commit" /\ pc'[p] = "done") =>
                   /\ Live(Target(p))
                   /\ Target(p) \in DOMAIN todos'
                   /\ todos'[Target(p)].deleted_at # None
           /\ \A id \in issued :
               ~Live(id) => ~(id \in DOMAIN todos' /\ todos'[id].deleted_at = None)]_vars

\* C13: whenever get, update, complete, reopen or soft_delete answers not
\* found, the call has written nothing: no statement of it changed a row,
\* also when other calls on the same id ran between its read-check and its
\* write.
NotFoundHasNoSideEffect ==
    \A p \in Procs :
        (/\ pc[p] = "done"
         /\ req[p].op \in {"get", "update", "complete", "reopen", "delete"}
         /\ ret[p].code = "not_found") => loc[p].rowcount = 0

\* a payload with an empty description, a priority outside 1..4 or a date
\* text that names no date
Malformed(data) ==
    \/ Has(data, "description") /\ data["description"] # None
           /\ Len(data["description"][1]) = 0
    \/ Has(data, "priority") /\ data["priority"] # None
           /\ data["priority"][1] \notin {1, 2, 3, 4}
    \/ Has(data, "due_date") /\ data["due_date"] # None
           /\ ~IsIsoDate(data["due_date"][1])

\* C14: a create or update request whose payload fails validation (empty
\* description, priority outside 1..4, unparseable date) is answered with a
\* validation failure in its first step, before any statement of the
\* repository runs, and the store is unchanged: no record added, no field
\* of any record changed.
InvalidPayloadChangesNothing ==
    /\ [][\A p \in Procs :
            (req'[p].op \in {"create", "update"} /\ Malformed(req'[p].data)) =>
                /\ pc'[p] = "done"
                /\ ret'[p].code = "invalid"
                /\ todos' = todos /\ seq' = seq]_vars
    /\ [](\A p \in Procs :
            (req[p].op \in {"create", "update"} /\ Malformed(req[p].data)) =>
                (pc[p] = "done" /\ ret[p].code = "invalid" /\ loc[p].rowcount = 0))

\* an update of an existing record with a priority outside 1..4 was rejected
InvalidUpdateOfLiveRecord ==
    /\ Done(1, "update") /\ ret[1].code = "invalid" /\ Live(Target(1))
    /\ Has(req[1].data, "priority") /\ req[1].data["priority"] = Some(0)

\* C15: in every reachable state, after any sequence of create and update
\* requests with valid, invalid or explicitly null payloads, every
\* physically present record has a priority in {1, 2, 3, 4}.
PriorityInRange ==
    \A id \in DOMAIN todos :
        todos[id].priority # None /\ todos[id].priority[1] \in {1, 2, 3, 4}

\* an update with an explicit null priority reached the store, which refused it
NullPriorityRefused ==
    /\ Done(1, "update") /\ ret[1].code = "server_error" /\ Live(Target(1))
    /\ Has(req[1].data, "priority") /\ req[1].data["priority"] = None

\* C16: every operation but the liveness check is gated on the credential
\* before its handler runs: a request with no credential is answered with
\* the authentication-required signal and one with a credential that is
\* not the configured secret with the invalid-credential signal, a
\* different one; in both cases no statement of the repository runs and
\* the store is unchanged; a request with the matching credential gets
\* neither signal; the liveness check succeeds whatever the credential.
CredentialGate ==
    /\ [][\A p \in Procs :
            (Idle(p) /\ <<pc'[p], req'[p], ret'[p], loc'[p]>> # <<pc[p], req[p], ret[p], loc[p]>>) =>
                LET op == req'[p].op
                    c == req'[p].cred
                IN  /\ op = "health" =>
                          (pc'[p] = "done" /\ ret'[p].code = "ok" /\ todos' = todos /\ seq' = seq)
                    /\ (op # "health" /\ c = None) =>
                          /\ pc'[p] = "done" /\ ret'[p] = Fail("forbidden")
                          /\ todos' = todos /\ seq' = seq /\ loc'[p].rowcount = 0
                    /\ (op # "health" /\ c # None /\ c # Some(ApiToken)) =>
                          /\ pc'[p] = "done" /\ ret'[p] = Fail("unauthorized")
                          /\ todos' = todos /\ seq' = seq /\ loc'[p].rowcount = 0
                    /\ (op # "health" /\ c = Some(ApiToken)) =>
                          ret'[p].code \notin {"forbidden", "unauthorized"}]_vars
    /\ [](\A p \in Procs :
            (req[p].op # "health" /\ req[p].cred = Some(ApiToken)) =>
                ret[p].code \notin {"forbidden", "unauthorized"})

\* a soft_delete request with no credential was refused while a record
\* was there to delete
UnauthenticatedDeleteRefused ==
    /\ Done(1, "delete") /\ req[1].cred = None /\ ret[1].code = "forbidden"
    /\ \E id \in DOMAIN todos : Live(id)

\* C17: bulk create validates all or nothing: a request with an empty
\* sequence, or with at least one invalid element among N, is answered with
\* a validation failure, persists no record and leaves the record count of
\* the store as it was; a request of N valid elements succeeds and returns
\* the N records it created, in the order submitted, with count = N.
BulkCreateAllOrNothing ==
    [][\A p \in Procs :
        (/\ Idle(p) /\ req'[p].op = "bulk"
         /\ <<pc'[p], req'[p], ret'[p], loc'[p]>> # <<pc[p], req[p], ret[p], loc[p]>>) =>
            LET xs == req'[p].data
                n == Len(xs)
            IN  IF n = 0 \/ \E k \in 1..n : Malformed(xs[k])
                THEN /\ ret'[p] = Fail("invalid")
                     /\ todos' = todos /\ seq' = seq
                ELSE /\ ret'[p].code = "ok" /\ ret'[p].count = n
                     /\ Len(ret'[p].todos) = n
                     /\ Cardinality(DOMAIN todos') = Cardinality(DOMAIN todos) + n
                     /\ \A k \in 1..n :
                          /\ ret'[p].todos[k].id \in DOMAIN todos' \ DOMAIN todos
                          /\ ret'[p].todos[k] = row_to_todo(todos'[ret'[p].todos[k].id])
                          /\ ret'[p].todos[k].description = xs[k]["description"][1]
                          /\ ret'[p].todos[k].priority =
                                 IF Has(xs[k], "priority") THEN xs[k]["priority"][1] ELSE 3
                     /\ \A k, l \in 1..n :
                          k < l => ret'[p].todos[k].id < ret'[p].todos[l].id]_vars

\* C18: under any interleaving of a purge with concurrent soft_delete and
\* create calls (no second purge), the count the purge returns is the
\* number of records it removed; so a record soft-deleted after the purge
\* computed its count is not removed by it.
PurgeCountIsRemoved ==
    [][\A p \in Procs :
        (/\ pc[p] = "purge_commit" /\ pc'[p] = "done"
         /\ \A q \in Procs \ {p} : req[q].op # "purge") =>
            ret'[p].count = Cardinality(DOMAIN todos \ DOMAIN todos')]_vars

\* C19: under any interleaving of concurrent update, complete, reopen and
\* soft_delete calls, once a record's deleted_at is non-null no write changes
\* any of its fields for as long as it is present.
SoftDeletedIsFrozen ==
    [][\A id \in DOMAIN todos :
        (todos[id].deleted_at # None /\ id \in DOMAIN todos') => todos'[id] = todos[id]]_vars

\* C20: under any interleaving with update, soft_delete and purge calls of
\* other callers, every create with a valid input returns a record, and the
\* record has the data fields supplied, with the defaults applied.
CreateReturnsWhatItPersisted ==
    \A p \in Procs :
        (Done(p, "create") /\ ValidCreate(req[p].data)) =>
            /\ ret[p].code = "ok"
            /\ \A f \in Fields :
                 Returned(ret[p].todos[1], f) =
                     Returned(row_to_todo(InsertRow(loc[p].n, TodoCreate(req[p].data), 0)), f)

\* the columns of a row
Columns ==
    {"id", "description", "due_date_text", "due_date", "notes", "priority", "status",
     "gcal_event_id", "created_at", "updated_at", "completed_at", "deleted_at"}

\* from todos to todos', record id changed in no column outside cols and no
\* other record changed, appeared or disappeared
OnlyChanged(id, cols) ==
    /\ DOMAIN todos' = DOMAIN todos
    /\ \A i \in DOMAIN todos :
         \A c \in Columns : (i # id \/ c \notin cols) => todos'[i][c] = todos[i][c]

\* C21: each mutation changes only its stated fields of the targeted record
\* and nothing of any other record: complete and reopen only status,
\* completed_at and updated_at; soft_delete only deleted_at and updated_at;
\* update never status, completed_at or deleted_at; none of them id or
\* created_at; and their read-checks and final reads change nothing.
MutationFrame ==
    [][\A p \in Procs :
        /\ (pc[p] = "complete_commit" /\ pc'[p] # pc[p]) =>
              OnlyChanged(Target(p), {"status", "completed_at", "updated_at"})
        /\ (pc[p] = "reopen_commit" /\ pc'[p] # pc[p]) =>
              OnlyChanged(Target(p), {"status", "completed_at", "updated_at"})
        /\ (pc[p] = "delete_commit" /\ pc'[p] # pc[p]) =>
              OnlyChanged(Target(p), {"deleted_at", "updated_at"})
        /\ (pc[p] = "update_commit" /\ pc'[p] # pc[p]) =>
              OnlyChanged(Target(p), Columns \ {"status", "completed_at", "deleted_at",
                                                "id", "created_at"})
        /\ (/\ req'[p].op \in {"update", "complete", "reopen", "delete"}
            /\ pc[p] \notin {"update_commit", "complete_commit", "reopen_commit", "delete_commit"}
            /\ pc'[p] # pc[p]) => todos' = todos]_vars

\* an update succeeded on a completed record while another record is present
UpdatedCompletedBesideAnother ==
    /\ Done(1, "update") /\ ret[1].code = "ok"
    /\ ret[1].todos[1].status = "completed" /\ ret[1].todos[1].priority = 4
    /\ Cardinality(DOMAIN todos) >= 2

\* C22: a record is physically removed only by the DELETE of a purge, and
\* only if its deleted_at is non-null: no statement of create, get, list,
\* update, complete, reopen or soft_delete reduces the set of records
\* present, and no statement resets a non-null deleted_at to null.
OnlyPurgeRemoves ==
    [][\A id \in DOMAIN todos :
        /\ id \notin DOMAIN todos' =>
              /\ todos[id].deleted_at # None
              /\ \E p \in Procs : pc[p] = "purge_commit" /\ pc'[p] = "done"
        /\ (id \in DOMAIN todos' /\ todos[id].deleted_at # None) =>
              todos'[id].deleted_at # None]_vars

\* a complete of another record succeeded while a soft-deleted record is
\* still present
SoftDeletedStillPresent ==
    /\ Done(1, "complete") /\ ret[1].code = "ok"
    /\ \E id \in DOMAIN todos : SoftDeleted(id)

\* C23: every update whose payload passes TodoUpdate is applied or answered
\* not found; none, an explicit null for description or priority included,
\* fails in the store.
ValidatedUpdateNeverFailsInStore ==
    \A p \in Procs :
        (Done(p, "update") /\ ValidUpdate(req[p].data)) => ret[p].code \in {"ok", "not_found"}

\* C24: under any interleaving of update, complete, reopen and soft_delete
\* calls, no record's updated_at ever decreases, and none is ever earlier
\* than the record's created_at.
UpdatedAtNeverDecreases ==
    /\ [][\A id \in DOMAIN todos \cap DOMAIN todos' :
            todos'[id].updated_at[1] >= todos[id].updated_at[1]]_vars
    /\ [](\A id \in DOMAIN todos : todos[id].updated_at[1] >= todos[id].created_at[1])

====
